---- MODULE Spec2Model ----
(***************************************************************************)
(* Live-transcription interview assistant: the transcript aggregator of    *)
(* App.tsx (onTranscriptionUpdate, handleStart, handleStop), the question  *)
(* detector (detectWithKeywords, detectWithLLM and its bounded cache), the *)
(* memory search client (searchMemories) and the live session lifecycle    *)
(* (startLiveTranscription, stop, onaudioprocess), and the two route       *)
(* handlers of the backend (save-memory, search-memory of server.mjs).     *)
(*                                                                         *)
(* Texts are sequences of one-character strings, so that concatenation,    *)
(* lower-casing, trimming and substring search are computed as the code    *)
(* computes them.  Scores and thresholds are percentages (0.5 is 50).      *)
(***************************************************************************)
EXTENDS Integers, Sequences, FiniteSets, TLC

\* ------------------------------------------------------------------ bounds
MaxStarts == 2        \* handleStart invocations in one behaviour
MaxFragments == 3     \* transcription fragments delivered in one behaviour
MaxControlMoves == 1  \* slider changes in one behaviour
MaxFaults == 1        \* failures of the device or the connection in one behaviour
MaxLLMFragments == 2  \* fragments delivered in the run that uses the LLM classifier
MaxLiveFragments == 2 \* fragments delivered in the keyword run of FairSpec
PrefillSlack == 1     \* SpecCache starts with CACHE_LIMIT - PrefillSlack .. CACHE_LIMIT entries
MaxChunks == 2        \* audio chunks produced in one behaviour
MaxRequests == 2      \* requests the backend receives in one behaviour
MaxStored == 6        \* records in the collection when the backend run begins
MaxPieces == 3        \* pieces a text handed to the keyword detector is made of
MaxProbeCalls == 2    \* calls of the keyword detector on one text

\* ------------------------------------------------------- program constants
CACHE_LIMIT == 100          \* llmCache.size > 100
DEFAULT_MIN_THRESHOLD == 50 \* useState(0.5)
DEFAULT_MAX_RESULTS == 3    \* useState(3)
SERVER_DEFAULT_LIMIT == 5   \* const { query, limit = 5 } = req.body

Null == 0             \* a null handle / ref; live handles are 1..MaxStarts
NoGroup == -1         \* currentQuestionGroup.current === null

\* ------------------------------------------------------------------- texts
UpperCase ==
  <<"A","B","C","D","E","F","G","H","I","J","K","L","M","N","O","P","Q","R","S","T","U","V","W","X","Y","Z">>
LowerCase ==
  <<"a","b","c","d","e","f","g","h","i","j","k","l","m","n","o","p","q","r","s","t","u","v","w","x","y","z">>
WhiteSpace == {" ", "\t", "\n", "\r"}

ToLowerChar(c) ==
  IF \E i \in 1..Len(UpperCase) : UpperCase[i] = c
  THEN LowerCase[CHOOSE i \in 1..Len(UpperCase) : UpperCase[i] = c]
  ELSE c

\* String.prototype.toLowerCase
ToLowerCase(t) == [i \in 1..Len(t) |-> ToLowerChar(t[i])]

\* String.prototype.trim
Trim(t) ==
  LET keep == {i \in 1..Len(t) : t[i] \notin WhiteSpace}
  IN  IF keep = {} THEN <<>>
      ELSE LET lo == CHOOSE i \in keep : \A j \in keep : i <= j
               hi == CHOOSE i \in keep : \A j \in keep : j <= i
           IN  SubSeq(t, lo, hi)

\* String.prototype.includes
Includes(t, sub) ==
  \E i \in 0..(Len(t) - Len(sub)) : SubSeq(t, i + 1, i + Len(sub)) = sub

\* /[.?!]/.test(text)
HasPunctuation(text) == \E i \in 1..Len(text) : text[i] \in {".", "?", "!"}

interviewKeywords ==
  <<
    <<"e","x","p","e","r","i","e","n","c","e">>,  \* 'experience'
    <<"s","k","i","l","l">>,  \* 'skill'
    <<"s","k","i","l","l","s">>,  \* 'skills'
    <<"b","a","c","k","g","r","o","u","n","d">>,  \* 'background'
    <<"q","u","a","l","i","f","i","c","a","t","i","o","n">>,  \* 'qualification'
    <<"q","u","a","l","i","f","i","c","a","t","i","o","n","s">>,  \* 'qualifications'
    <<"t","e","l","l"," ","m","e"," ","a","b","o","u","t">>,  \* 'tell me about'
    <<"d","e","s","c","r","i","b","e">>,  \* 'describe'
    <<"e","x","p","l","a","i","n">>,  \* 'explain'
    <<"w","a","l","k"," ","m","e"," ","t","h","r","o","u","g","h">>,  \* 'walk me through'
    <<"h","o","w"," ","w","o","u","l","d"," ","y","o","u">>,  \* 'how would you'
    <<"w","h","a","t"," ","w","o","u","l","d"," ","y","o","u">>,  \* 'what would you'
    <<"w","h","y"," ","d","i","d"," ","y","o","u">>,  \* 'why did you'
    <<"w","h","e","n"," ","d","i","d"," ","y","o","u">>,  \* 'when did you'
    <<"w","h","e","r","e"," ","d","i","d"," ","y","o","u">>,  \* 'where did you'
    <<"h","a","v","e"," ","y","o","u"," ","e","v","e","r">>,  \* 'have you ever'
    <<"c","a","n"," ","y","o","u">>,  \* 'can you'
    <<"c","o","u","l","d"," ","y","o","u">>,  \* 'could you'
    <<"w","o","u","l","d"," ","y","o","u">>,  \* 'would you'
    <<"d","o"," ","y","o","u"," ","h","a","v","e">>,  \* 'do you have'
    <<"w","h","a","t"," ","i","s"," ","y","o","u","r">>,  \* 'what is your'
    <<"s","t","r","e","n","g","t","h","s">>,  \* 'strengths'
    <<"w","e","a","k","n","e","s","s","e","s">>,  \* 'weaknesses'
    <<"c","h","a","l","l","e","n","g","e">>,  \* 'challenge'
    <<"p","r","o","j","e","c","t">>,  \* 'project'
    <<"t","e","a","m">>,  \* 'team'
    <<"l","e","a","d","e","r","s","h","i","p">>,  \* 'leadership'
    <<"c","o","n","f","l","i","c","t">>,  \* 'conflict'
    <<"s","i","t","u","a","t","i","o","n">>,  \* 'situation'
    <<"e","x","a","m","p","l","e">>,  \* 'example'
    <<"g","r","e","a","t","e","s","t"," ","a","c","h","i","e","v","e","m","e","n","t">>,  \* 'greatest achievement'
    <<"w","h","y"," ","s","h","o","u","l","d"," ","w","e">>  \* 'why should we'
  >>

\* variant: the text is compared without lower-casing it
DetectWithKeywords_CaseSensitive(text) ==
  LET lowerText == Trim(text)
  IN  \/ Includes(lowerText, <<"?">>)
      \/ \E k \in 1..Len(interviewKeywords) : Includes(lowerText, interviewKeywords[k])

\* detectWithKeywords(text)
DetectWithKeywords(text) ==
  LET lowerText == Trim(ToLowerCase(text))
  IN  \/ Includes(lowerText, <<"?">>)
      \/ \E k \in 1..Len(interviewKeywords) : Includes(lowerText, interviewKeywords[k])

\* isTextAQuestion(text)
IsTextAQuestion(text) == DetectWithKeywords(text)

\* ------------------------------------------------------ the LLM cache (Map)
\* llmCache is a JavaScript Map: a sequence of entries in insertion order.
CacheKeys(cache) == {cache[i].key : i \in 1..Len(cache)}
CacheHas(cache, text) == text \in CacheKeys(cache)
CacheGet(cache, text) ==
  cache[CHOOSE i \in 1..Len(cache) : cache[i].key = text].value

\* Map.prototype.set: an existing key keeps its position, a new key goes last
CacheSet(cache, text, v) ==
  IF CacheHas(cache, text)
  THEN [i \in 1..Len(cache) |->
          IF cache[i].key = text THEN [key |-> text, value |-> v] ELSE cache[i]]
  ELSE Append(cache, [key |-> text, value |-> v])

\* variant: the limit is applied one entry early
CacheEvict_OffByOne(cache) ==
  IF Len(cache) >= CACHE_LIMIT THEN Tail(cache) ELSE cache

\* if (llmCache.size > 100) delete the first key of the iteration order
CacheEvict(cache) ==
  IF Len(cache) > CACHE_LIMIT THEN Tail(cache) ELSE cache

\* llmCache.set(text, isQuestion) followed by the size limit
CacheInsert(cache, text, v) == CacheEvict(CacheSet(cache, text, v))

\* response.text().toLowerCase().trim().includes('yes')
ResponseSaysYes(response) == Includes(Trim(ToLowerCase(response)), <<"y","e","s">>)

\* variant: the failure is passed on to the caller
LLMFailureResult_Rethrow(text) ==
  [settled |-> "rejected", value |-> FALSE]

\* the catch block of detectWithLLM: what the promise settles with on failure
LLMFailureResult(text) ==
  [settled |-> "resolved", value |-> DetectWithKeywords(text)]

\* the try block of detectWithLLM once generateContent has answered
LLMSuccessResult(response) ==
  [settled |-> "resolved", value |-> ResponseSaysYes(response)]

\* ------------------------------------------------------------------ inputs
Txt_te == <<"t","e">>
Txt_am == <<"a","m",".">>
Txt_q  == <<"a","?">>

\* message.serverContent.inputTranscription: { text, isFinal }
Fragments ==
  { [text |-> Txt_te, isFinal |-> FALSE],
    [text |-> Txt_am, isFinal |-> TRUE],
    [text |-> Txt_q,  isFinal |-> TRUE] }

\* what generateContent answers with
LLMResponses == { <<"Y","e","s">>, <<"n","o","\n">> }

R(i, s) == [id |-> i, score |-> s]

\* data.results of a successful /api/search-memory response
SearchResults ==
  { <<>>,
    <<R(1, 50)>>,
    <<R(2, 49), R(3, 90), R(4, 50)>> }

\* how one fetch of /api/search-memory can end
SearchResponses ==
  { [kind |-> "network_error", results |-> <<>>],
    [kind |-> "http_not_ok",   results |-> <<>>],
    [kind |-> "success_false", results |-> <<>>] }
  \cup { [kind |-> "ok", results |-> r] : r \in SearchResults }

\* texts handed to detectWithKeywords: up to MaxPieces of these pieces, joined
Pieces ==
  { <<"t","e">>, <<"a","m">>, <<"T","E">>, <<"A","m">>, <<" ">>, <<"?">>,
    <<"x">>, <<"c","a","n">>, <<"Y","o","u">> }

RECURSIVE Join(_)
Join(ps) == IF ps = <<>> THEN <<>> ELSE Head(ps) \o Join(Tail(ps))

ProbeTexts == {Join(ps) : ps \in UNION {[1..n -> Pieces] : n \in 0..MaxPieces}}

ThresholdChoices == {50, 70}   \* the slider, in percent
MaxResultsChoices == {1, 3}    \* the slider of the result count

\* ------------------------------------------------------------------- state
VARIABLES
  mode,                 \* DETECTION_MODE, fixed for a behaviour
  status,               \* TranscriptionStatus shown by the UI
  phrases,              \* the displayed phrase list
  error,                \* the error message state
  minThreshold,         \* UI control, percent
  maxResults,           \* UI control
  liveSessionRef,       \* TRUE when liveSessionRef.current holds { stop }
  phraseIdCounter,
  currentQuestionGroup,
  questionGroupCounter,
  accumulatedText,
  audioContext,         \* module-level handles of the service
  mediaStream,
  scriptProcessor,
  mediaStreamSource,
  session,
  starts,               \* the handleStart invocations and where each one is
  connState,            \* the live connection opened by each start
  streamState,          \* the media stream obtained by each start
  ctxState,             \* the audio context created by each start
  procState,            \* the script processor node created by each start
  srcState,             \* the media stream source node created by each start
  sent,                 \* audio chunks sent on the connection of each start
  tasks,                \* the classification/search chains started so far
  llmCache,
  epoch,                \* number of transcript resets (handleStart) so far
  budget,               \* what the environment may still do in this behaviour
  probe,                \* a text and what detectWithKeywords returned for it, call by call
  requests,             \* the requests the backend has received and where each handler is
  collection            \* the stored records of the backend's collection

appVars == <<status, phrases, error, minThreshold, maxResults, liveSessionRef,
             phraseIdCounter, currentQuestionGroup, questionGroupCounter,
             accumulatedText>>
handleVars == <<audioContext, mediaStream, scriptProcessor, mediaStreamSource, session>>
worldVars == <<connState, streamState, ctxState, procState, srcState>>
clientVars == <<mode, appVars, handleVars, starts, worldVars, tasks, llmCache, epoch, budget>>
serverVars == <<requests, collection>>
auxVars == <<probe, sent, serverVars>>
vars == <<clientVars, auxVars>>

StartIds == 1..MaxStarts
TaskIds == 1..(MaxFragments + MaxLLMFragments)
LiveTaskIds == 1..(MaxLiveFragments + 1)

Budget(st, fr, mv, fl) ==
  [starts |-> st, fragments |-> fr, moves |-> mv, faults |-> fl, chunks |-> 0,
   requests |-> 0]
WithChunks(b, n) == [b EXCEPT !.chunks = n]
WithRequests(b, n) == [b EXCEPT !.requests = n]

\* the runs that are explored: the detection mode and what the environment may do
SessionsRun == [mode |-> "KEYWORD", budget |-> Budget(MaxStarts, MaxFragments, 0, 0)]
LLMRun      == [mode |-> "LLM",     budget |-> Budget(1, MaxLLMFragments, 0, 0)]
ControlsRun == [mode |-> "KEYWORD", budget |-> Budget(1, 2, MaxControlMoves, 0)]
FaultsRun   == [mode |-> "KEYWORD", budget |-> Budget(MaxStarts, 1, 0, MaxFaults)]
AudioRun    == [mode |-> "KEYWORD",
                budget |-> WithChunks(Budget(MaxStarts, 0, 0, MaxFaults), MaxChunks)]

Scenarios == {SessionsRun, LLMRun, ControlsRun, FaultsRun, AudioRun}

\* the runs in which every request is required to settle (FairSpec)
LiveScenarios ==
  { [mode |-> "KEYWORD", budget |-> Budget(1, MaxLiveFragments, 0, 0)],
    [mode |-> "LLM",     budget |-> Budget(1, 2, 0, 0)],
    [mode |-> "KEYWORD", budget |-> Budget(1, 1, MaxControlMoves, 0)],
    [mode |-> "KEYWORD", budget |-> WithChunks(Budget(2, 1, 0, 1), 1)] }

\* the runs that start from a cache filled by earlier classifications (SpecCache)
CacheScenarios ==
  { [mode |-> "LLM",     budget |-> Budget(1, 2, 0, 0)],
    [mode |-> "KEYWORD", budget |-> Budget(1, 1, MaxControlMoves, 0)],
    [mode |-> "KEYWORD", budget |-> WithChunks(Budget(2, 1, 0, 1), 1)] }

\* texts classified before the run begins: "#aa", "#ab", ..., "#jj"
Filler(n) == <<"#", LowerCase[(n \div 10) + 1], LowerCase[(n % 10) + 1]>>

\* a cache of n entries whose oldest entry is the text "a?"
Prefill(n) ==
  IF n = 0 THEN <<>>
  ELSE <<[key |-> Txt_q, value |-> TRUE]>>
         \o [j \in 1..(n - 1) |-> [key |-> Filler(j), value |-> FALSE]]

PrefillSizes == (CACHE_LIMIT - PrefillSlack)..CACHE_LIMIT

InitState(sc, cache) ==
  /\ mode = sc.mode
  /\ budget = sc.budget
  /\ llmCache = cache
  /\ status = "IDLE"
  /\ phrases = <<>>
  /\ error = "null"
  /\ minThreshold = DEFAULT_MIN_THRESHOLD
  /\ maxResults = DEFAULT_MAX_RESULTS
  /\ liveSessionRef = FALSE
  /\ phraseIdCounter = 0
  /\ currentQuestionGroup = NoGroup
  /\ questionGroupCounter = 0
  /\ accumulatedText = <<>>
  /\ audioContext = Null
  /\ mediaStream = Null
  /\ scriptProcessor = Null
  /\ mediaStreamSource = Null
  /\ session = Null
  /\ starts = <<>>
  /\ connState = [s \in StartIds |-> "none"]
  /\ streamState = [s \in StartIds |-> "none"]
  /\ ctxState = [s \in StartIds |-> "none"]
  /\ procState = [s \in StartIds |-> "none"]
  /\ srcState = [s \in StartIds |-> "none"]
  /\ tasks = <<>>
  /\ epoch = 0

\* nothing has been handed to the detector outside the aggregator
AuxIdle == probe = [text |-> <<>>, results |-> <<>>]
\* no audio chunk has been sent
NothingSent == sent = [s \in StartIds |-> 0]
\* the backend has received nothing and stores nothing
ServerIdle == requests = <<>> /\ collection = <<>>

Init == (\E sc \in Scenarios : InitState(sc, <<>>)) /\ AuxIdle /\ NothingSent /\ ServerIdle
InitLive == (\E sc \in LiveScenarios : InitState(sc, <<>>)) /\ AuxIdle /\ NothingSent /\ ServerIdle
InitCache == (\E sc \in CacheScenarios, n \in PrefillSizes : InitState(sc, Prefill(n))) /\ AuxIdle /\ NothingSent /\ ServerIdle

\* --------------------------------------------------- the transcript aggregator
\* variant: the newest fragment is shown first
AppendPhrase_AtFront(prevPhrases, id, text, isFinal, groupId) ==
  <<[id |-> id, text |-> text, isFinal |-> isFinal, isQuestion |-> FALSE,
     questionGroupId |-> groupId,
     hasSearchResults |-> FALSE, searchResults |-> <<>>]>> \o prevPhrases

\* variant: the fragment that ends a sentence is displayed only with its annotation
AppendPhrase_Deferred(prevPhrases, id, text, isFinal, groupId) ==
  IF HasPunctuation(text) THEN prevPhrases
  ELSE Append(prevPhrases,
         [id |-> id, text |-> text, isFinal |-> isFinal, isQuestion |-> FALSE,
          questionGroupId |-> groupId,
          hasSearchResults |-> FALSE, searchResults |-> <<>>])

\* setPhrases(prev => [...prev, { id, text, isFinal, isQuestion: false, questionGroupId }])
AppendPhrase(prevPhrases, id, text, isFinal, groupId) ==
  Append(prevPhrases,
         [id |-> id, text |-> text, isFinal |-> isFinal, isQuestion |-> FALSE,
          questionGroupId |-> groupId,
          hasSearchResults |-> FALSE, searchResults |-> <<>>])

\* variant: the update marks every displayed fragment
MarkGroup_MarksAll(prevPhrases, groupId, searchResults) ==
  [i \in 1..Len(prevPhrases) |->
     [prevPhrases[i] EXCEPT !.isQuestion = TRUE,
                            !.hasSearchResults = TRUE,
                            !.searchResults = searchResults]]

\* setPhrases(prev => prev.map(phrase => phrase.questionGroupId === groupId ? {...} : phrase))
MarkGroup(prevPhrases, groupId, searchResults) ==
  [i \in 1..Len(prevPhrases) |->
     IF prevPhrases[i].questionGroupId = groupId
     THEN [prevPhrases[i] EXCEPT !.isQuestion = TRUE,
                                 !.hasSearchResults = TRUE,
                                 !.searchResults = searchResults]
     ELSE prevPhrases[i]]

\* variant: a strict comparison drops a result whose score equals the threshold
FilterByThreshold_Strict(allResults, currentMinThreshold) ==
  SelectSeq(allResults, LAMBDA result : result.score > currentMinThreshold)

\* allResults.filter(result => result.score >= currentMinThreshold)
FilterByThreshold(allResults, currentMinThreshold) ==
  SelectSeq(allResults, LAMBDA result : result.score >= currentMinThreshold)

\* variant: a failed request is reported as an empty result list
SearchMemories_EmptyOnError(response) ==
  IF response.kind = "ok"
  THEN [settled |-> "resolved", results |-> response.results]
  ELSE [settled |-> "resolved", results |-> <<>>]

\* searchMemories: resolves with data.results or rejects
SearchMemories(response) ==
  IF response.kind = "ok"
  THEN [settled |-> "resolved", results |-> response.results]
  ELSE [settled |-> "rejected", results |-> <<>>]

\* variant: without the try/catch a rejected search ends the chain unannotated
SearchResultsFor_NoCatch(response, currentMinThreshold) ==
  LET r == SearchMemories(response)
  IN  IF r.settled = "resolved"
      THEN [annotate |-> TRUE, searchResults |-> FilterByThreshold(r.results, currentMinThreshold)]
      ELSE [annotate |-> FALSE, searchResults |-> <<>>]

\* the try/catch around searchMemories: the searchResults the update is given
SearchResultsFor(response, currentMinThreshold) ==
  LET r == SearchMemories(response)
  IN  IF r.settled = "resolved"
      THEN [annotate |-> TRUE, searchResults |-> FilterByThreshold(r.results, currentMinThreshold)]
      ELSE [annotate |-> TRUE, searchResults |-> <<>>]

\* variant: the buffer is not cleared at the end of a sentence
AccumulatedAfter_NeverReset(hasPunctuation, fullText) == fullText

\* accumulatedText.current / currentQuestionGroup.current when the callback returns
AccumulatedAfter(hasPunctuation, fullText) ==
  IF hasPunctuation THEN <<>> ELSE fullText
GroupAfter(hasPunctuation, groupId) ==
  IF hasPunctuation THEN NoGroup ELSE groupId

\* variant: the counter is read but not advanced
CounterAfter_Stuck(current, counter) == counter

\* variant: every fragment takes a fresh id from the counter
GroupFor_AlwaysNew(current, counter) ==
  IF current = NoGroup THEN counter ELSE counter + 1

\* the group a fragment joins: the open one, or a new one from the counter
GroupFor(current, counter) ==
  IF current = NoGroup THEN counter ELSE current
CounterAfter(current, counter) ==
  IF current = NoGroup THEN counter + 1 ELSE counter

\* variant: the chain ends after classification without searching
AfterClassification_NoSearch(task, settled, isQuestion, via) ==
  [task EXCEPT !.pc = IF settled = "rejected" THEN "rejected" ELSE "done",
               !.isQuestion = isQuestion,
               !.via = via]

\* the .then callback of isTextAQuestionAsync, run once the answer is known:
\* a question goes on to searchMemories, anything else ends the chain
AfterClassification(task, settled, isQuestion, via) ==
  [task EXCEPT !.pc = IF settled = "rejected" THEN "rejected"
                      ELSE IF isQuestion THEN "searching" ELSE "done",
               !.isQuestion = isQuestion,
               !.via = via]

\* variant: detectWithLLM does not consult the cache
StartClassification_NoCache(task, cache) ==
  IF mode = "KEYWORD"
  THEN AfterClassification(task, "resolved", DetectWithKeywords(task.fullText), "keyword")
  ELSE [task EXCEPT !.pc = "llm", !.net = TRUE]

\* variant: the keyword strategy also answers from the cache of the classifier
StartClassification_KeywordReadsCache(task, cache) ==
  IF CacheHas(cache, task.fullText)
  THEN AfterClassification(task, "resolved", CacheGet(cache, task.fullText), "cache")
  ELSE IF mode = "KEYWORD"
       THEN AfterClassification(task, "resolved", DetectWithKeywords(task.fullText), "keyword")
       ELSE [task EXCEPT !.pc = "llm", !.net = TRUE]

\* isTextAQuestionAsync(fullText), up to its first suspension
StartClassification(task, cache) ==
  IF mode = "KEYWORD"
  THEN AfterClassification(task, "resolved", DetectWithKeywords(task.fullText), "keyword")
  ELSE IF CacheHas(cache, task.fullText)
       THEN AfterClassification(task, "resolved", CacheGet(cache, task.fullText), "cache")
       ELSE [task EXCEPT !.pc = "llm", !.net = TRUE]

NewTask(groupId, fullText, limit, threshold) ==
  [epoch |-> epoch, groupId |-> groupId, fullText |-> fullText,
   currentMaxResults |-> limit, currentMinThreshold |-> threshold,
   pc |-> "new", isQuestion |-> FALSE, via |-> "pending", net |-> FALSE,
   searched |-> "pending", allResults |-> <<>>, applied |-> FALSE]

\* onTranscriptionUpdate(text, isFinal), in the closure handed to start s
OnTranscriptionUpdate(s, text, isFinal) ==
  LET hasPunctuation == HasPunctuation(text)
      groupId == GroupFor(currentQuestionGroup, questionGroupCounter)
      fullText == accumulatedText \o text
  IN  /\ questionGroupCounter' = CounterAfter(currentQuestionGroup, questionGroupCounter)
      /\ phrases' = AppendPhrase(phrases, phraseIdCounter, text, isFinal, groupId)
      /\ phraseIdCounter' = phraseIdCounter + 1
      /\ tasks' = IF hasPunctuation
                  THEN Append(tasks,
                         StartClassification(
                           NewTask(groupId, fullText,
                                   starts[s].currentMaxResults,
                                   starts[s].currentMinThreshold),
                           llmCache))
                  ELSE tasks
      /\ accumulatedText' = AccumulatedAfter(hasPunctuation, fullText)
      /\ currentQuestionGroup' = GroupAfter(hasPunctuation, groupId)

\* onmessage of the connection of start s, carrying an input transcription
OnMessage(s, f) ==
  /\ s \in 1..Len(starts)
  /\ connState[s] = "open"
  /\ budget.fragments > 0
  /\ budget' = [budget EXCEPT !.fragments = @ - 1]
  /\ OnTranscriptionUpdate(s, f.text, f.isFinal)
  /\ UNCHANGED <<auxVars, mode, status, error, minThreshold, maxResults, liveSessionRef,
                 handleVars, starts, worldVars, llmCache, epoch>>

\* generateContent answers for task i
LLMSettle(i, response) ==
  /\ i \in 1..Len(tasks)
  /\ tasks[i].pc = "llm"
  /\ LET r == LLMSuccessResult(response)
     IN  /\ tasks' = [tasks EXCEPT ![i] = AfterClassification(@, r.settled, r.value, "llm")]
         /\ llmCache' = CacheInsert(llmCache, tasks[i].fullText, r.value)
  /\ UNCHANGED <<auxVars, mode, appVars, handleVars, starts, worldVars, epoch, budget>>

\* variant: the keyword fallback value is stored in the cache
LLMFail_CachesFallback(i) ==
  /\ i \in 1..Len(tasks)
  /\ tasks[i].pc = "llm"
  /\ LET r == LLMFailureResult(tasks[i].fullText)
     IN  /\ tasks' = [tasks EXCEPT ![i] = AfterClassification(@, r.settled, r.value, "fallback")]
         /\ llmCache' = CacheInsert(llmCache, tasks[i].fullText, r.value)
  /\ UNCHANGED <<auxVars, mode, appVars, handleVars, starts, worldVars, epoch, budget>>

\* generateContent (or getGenerativeModel) throws for task i
LLMFail(i) ==
  /\ i \in 1..Len(tasks)
  /\ tasks[i].pc = "llm"
  /\ LET r == LLMFailureResult(tasks[i].fullText)
     IN  tasks' = [tasks EXCEPT ![i] = AfterClassification(@, r.settled, r.value, "fallback")]
  /\ UNCHANGED <<auxVars, mode, appVars, handleVars, starts, worldVars, llmCache, epoch, budget>>

\* the fetch of searchMemories settles for task i; the annotation update follows
SearchSettle(i, response) ==
  /\ i \in 1..Len(tasks)
  /\ tasks[i].pc = "searching"
  /\ response.kind = "ok" => Len(response.results) <= tasks[i].currentMaxResults
  /\ LET r == SearchResultsFor(response, tasks[i].currentMinThreshold)
     IN  /\ phrases' = IF r.annotate
                       THEN MarkGroup(phrases, tasks[i].groupId, r.searchResults)
                       ELSE phrases
         /\ tasks' = [tasks EXCEPT ![i].pc = "done",
                                   ![i].searched = SearchMemories(response).settled,
                                   ![i].allResults = SearchMemories(response).results,
                                   ![i].applied = r.annotate]
  /\ UNCHANGED <<auxVars, mode, status, error, minThreshold, maxResults, liveSessionRef,
                 phraseIdCounter, currentQuestionGroup, questionGroupCounter,
                 accumulatedText, handleVars, starts, worldVars, llmCache, epoch,
                 budget>>

\* ------------------------------------------------------ the live session
\* variant: the streaming session is closed but its handle is kept
StopService_KeepsSession(connBefore) ==
  /\ session' = session
  /\ connState' = IF session # Null
                  THEN [connBefore EXCEPT ![session] = "closed"]
                  ELSE connBefore
  /\ mediaStream' = Null
  /\ streamState' = IF mediaStream # Null
                    THEN [streamState EXCEPT ![mediaStream] = "stopped"]
                    ELSE streamState
  /\ scriptProcessor' = Null
  /\ procState' = IF scriptProcessor # Null
                  THEN [procState EXCEPT ![scriptProcessor] = "disconnected"]
                  ELSE procState
  /\ mediaStreamSource' = Null
  /\ srcState' = IF mediaStreamSource # Null
                 THEN [srcState EXCEPT ![mediaStreamSource] = "disconnected"]
                 ELSE srcState
  /\ audioContext' = IF audioContext # Null /\ ctxState[audioContext] # "closed"
                     THEN Null ELSE audioContext
  /\ ctxState' = IF audioContext # Null /\ ctxState[audioContext] # "closed"
                 THEN [ctxState EXCEPT ![audioContext] = "closed"]
                 ELSE ctxState

\* stop(): closes and clears whatever the module-level handles refer to
StopService(connBefore) ==
  /\ session' = Null
  /\ connState' = IF session # Null
                  THEN [connBefore EXCEPT ![session] = "closed"]
                  ELSE connBefore
  /\ mediaStream' = Null
  /\ streamState' = IF mediaStream # Null
                    THEN [streamState EXCEPT ![mediaStream] = "stopped"]
                    ELSE streamState
  /\ scriptProcessor' = Null
  /\ procState' = IF scriptProcessor # Null
                  THEN [procState EXCEPT ![scriptProcessor] = "disconnected"]
                  ELSE procState
  /\ mediaStreamSource' = Null
  /\ srcState' = IF mediaStreamSource # Null
                 THEN [srcState EXCEPT ![mediaStreamSource] = "disconnected"]
                 ELSE srcState
  /\ audioContext' = IF audioContext # Null /\ ctxState[audioContext] # "closed"
                     THEN Null ELSE audioContext
  /\ ctxState' = IF audioContext # Null /\ ctxState[audioContext] # "closed"
                 THEN [ctxState EXCEPT ![audioContext] = "closed"]
                 ELSE ctxState

\* variant: Start leaves the accumulation buffer and the open group as they are
HandleStart_KeepsBuffer ==
  /\ status \notin {"LISTENING", "CONNECTING"}     \* disabled={isListening}
  /\ budget.starts > 0
  /\ budget' = [budget EXCEPT !.starts = @ - 1]
  /\ error' = "null"
  /\ phrases' = <<>>
  /\ phraseIdCounter' = 0
  /\ questionGroupCounter' = 0
  /\ IF liveSessionRef
     THEN StopService(connState)
     ELSE UNCHANGED <<handleVars, worldVars>>
  /\ liveSessionRef' = FALSE
  /\ status' = "CONNECTING"
  /\ starts' = Append(starts, [pc |-> "getUserMedia",
                               currentMaxResults |-> maxResults,
                               currentMinThreshold |-> minThreshold])
  /\ epoch' = epoch + 1
  /\ UNCHANGED <<auxVars, mode, minThreshold, maxResults, tasks, llmCache,
                 currentQuestionGroup, accumulatedText>>

\* handleStart up to the first suspension of startLiveTranscription
HandleStart ==
  /\ status \notin {"LISTENING", "CONNECTING"}     \* disabled={isListening}
  /\ budget.starts > 0
  /\ budget' = [budget EXCEPT !.starts = @ - 1]
  /\ error' = "null"
  /\ phrases' = <<>>
  /\ phraseIdCounter' = 0
  /\ currentQuestionGroup' = NoGroup
  /\ questionGroupCounter' = 0
  /\ accumulatedText' = <<>>
  /\ IF liveSessionRef
     THEN StopService(connState)
     ELSE UNCHANGED <<handleVars, worldVars>>
  /\ liveSessionRef' = FALSE
  /\ status' = "CONNECTING"
  /\ starts' = Append(starts, [pc |-> "getUserMedia",
                               currentMaxResults |-> maxResults,
                               currentMinThreshold |-> minThreshold])
  /\ epoch' = epoch + 1
  /\ UNCHANGED <<auxVars, mode, minThreshold, maxResults, tasks, llmCache>>

\* getUserMedia resolves; ai.live.connect is called and awaited
GetUserMediaOk(s) ==
  /\ s \in 1..Len(starts)
  /\ starts[s].pc = "getUserMedia"
  /\ mediaStream' = s
  /\ streamState' = [streamState EXCEPT ![s] = "live"]
  /\ connState' = [connState EXCEPT ![s] = "connecting"]
  /\ starts' = [starts EXCEPT ![s].pc = "connect"]
  /\ UNCHANGED <<auxVars, mode, appVars, audioContext, scriptProcessor, mediaStreamSource,
                 session, ctxState, procState, srcState, tasks, llmCache, epoch, budget>>

\* getUserMedia rejects: the catch of startLiveTranscription, then of handleStart
GetUserMediaFail(s) ==
  /\ budget.faults > 0
  /\ budget' = [budget EXCEPT !.faults = @ - 1]
  /\ s \in 1..Len(starts)
  /\ starts[s].pc = "getUserMedia"
  /\ StopService(connState)
  /\ error' = "init_failed"
  /\ status' = "ERROR"
  /\ starts' = [starts EXCEPT ![s].pc = "threw"]
  /\ UNCHANGED <<auxVars, mode, phrases, minThreshold, maxResults, liveSessionRef,
                 phraseIdCounter, currentQuestionGroup, questionGroupCounter,
                 accumulatedText, tasks, llmCache, epoch>>

\* onopen of the connection of start s
OnOpen(s) ==
  /\ s \in 1..Len(starts)
  /\ connState[s] = "connecting"
  /\ connState' = [connState EXCEPT ![s] = "open"]
  /\ status' = "LISTENING"
  /\ audioContext' = s
  /\ ctxState' = [ctxState EXCEPT ![s] = "running"]
  /\ IF mediaStream # Null
     THEN /\ mediaStreamSource' = s
          /\ scriptProcessor' = s
          /\ srcState' = [srcState EXCEPT ![s] = "connected"]
          /\ procState' = [procState EXCEPT ![s] = "connected"]
     ELSE UNCHANGED <<mediaStreamSource, scriptProcessor,   \* createMediaStreamSource(null) throws
                      srcState, procState>>
  /\ UNCHANGED <<auxVars, mode, phrases, error, minThreshold, maxResults, liveSessionRef,
                 phraseIdCounter, currentQuestionGroup, questionGroupCounter,
                 accumulatedText, mediaStream, session, starts, streamState,
                 tasks, llmCache, epoch, budget>>

\* session = await sessionPromise; return { stop }; liveSessionRef.current = sessionControl
ConnectResolved(s) ==
  /\ s \in 1..Len(starts)
  /\ starts[s].pc = "connect"
  /\ connState[s] = "open"
  /\ session' = s
  /\ liveSessionRef' = TRUE
  /\ starts' = [starts EXCEPT ![s].pc = "returned"]
  /\ UNCHANGED <<auxVars, mode, status, phrases, error, minThreshold, maxResults,
                 phraseIdCounter, currentQuestionGroup, questionGroupCounter,
                 accumulatedText, audioContext, mediaStream, scriptProcessor,
                 mediaStreamSource, worldVars, tasks, llmCache, epoch, budget>>

\* ai.live.connect rejects: the catch of startLiveTranscription, then of handleStart
ConnectFail(s) ==
  /\ budget.faults > 0
  /\ budget' = [budget EXCEPT !.faults = @ - 1]
  /\ s \in 1..Len(starts)
  /\ starts[s].pc = "connect"
  /\ connState[s] = "connecting"
  /\ StopService([connState EXCEPT ![s] = "closed"])
  /\ error' = "init_failed"
  /\ status' = "ERROR"
  /\ starts' = [starts EXCEPT ![s].pc = "threw"]
  /\ UNCHANGED <<auxVars, mode, phrases, minThreshold, maxResults, liveSessionRef,
                 phraseIdCounter, currentQuestionGroup, questionGroupCounter,
                 accumulatedText, tasks, llmCache, epoch>>

\* onerror of the connection of start s
OnError(s) ==
  /\ budget.faults > 0
  /\ budget' = [budget EXCEPT !.faults = @ - 1]
  /\ s \in 1..Len(starts)
  /\ connState[s] \in {"connecting", "open"}
  /\ error' = "error_occurred"
  /\ status' = "ERROR"
  /\ UNCHANGED <<auxVars, mode, phrases, minThreshold, maxResults, liveSessionRef,
                 phraseIdCounter, currentQuestionGroup, questionGroupCounter,
                 accumulatedText, handleVars, starts, worldVars, tasks, llmCache,
                 epoch>>

\* onaudioprocess of the script processor created by start p
AudioProcess(p) ==
  /\ budget.chunks > 0
  /\ budget' = [budget EXCEPT !.chunks = @ - 1]
  /\ procState[p] = "connected"
  /\ ctxState[p] = "running"
  /\ sent' = IF session # Null /\ connState[session] = "open"   \* if (!session) return
             THEN [sent EXCEPT ![session] = @ + 1]
             ELSE sent
  /\ UNCHANGED <<probe, serverVars, mode, appVars, handleVars, starts, worldVars, tasks,
                 llmCache, epoch>>

\* variant: Stop abandons the chains that are in flight
HandleStop_Cancelling ==
  /\ status \in {"LISTENING", "CONNECTING"}
  /\ IF liveSessionRef
     THEN /\ StopService(connState)
          /\ liveSessionRef' = FALSE
          /\ status' = "STOPPED"
          /\ tasks' = [i \in 1..Len(tasks) |->
                         IF tasks[i].pc \in {"llm", "searching"}
                         THEN [tasks[i] EXCEPT !.pc = "done"]
                         ELSE tasks[i]]
     ELSE UNCHANGED <<handleVars, worldVars, liveSessionRef, status, tasks>>
  /\ UNCHANGED <<auxVars, mode, phrases, error, minThreshold, maxResults, phraseIdCounter,
                 currentQuestionGroup, questionGroupCounter, accumulatedText,
                 starts, llmCache, epoch, budget>>

\* handleStop
HandleStop ==
  /\ status \in {"LISTENING", "CONNECTING"}        \* disabled={!isListening}
  /\ IF liveSessionRef
     THEN /\ StopService(connState)
          /\ liveSessionRef' = FALSE
          /\ status' = "STOPPED"
     ELSE UNCHANGED <<handleVars, worldVars, liveSessionRef, status>>
  /\ UNCHANGED <<auxVars, mode, phrases, error, minThreshold, maxResults, phraseIdCounter,
                 currentQuestionGroup, questionGroupCounter, accumulatedText,
                 starts, tasks, llmCache, epoch, budget>>

\* the two sliders
SetMinThreshold(v) ==
  /\ budget.moves > 0
  /\ budget' = [budget EXCEPT !.moves = @ - 1]
  /\ v # minThreshold
  /\ minThreshold' = v
  /\ UNCHANGED <<auxVars, mode, status, phrases, error, maxResults, liveSessionRef,
                 phraseIdCounter, currentQuestionGroup, questionGroupCounter,
                 accumulatedText, handleVars, starts, worldVars, tasks, llmCache,
                 epoch>>

SetMaxResults(n) ==
  /\ budget.moves > 0
  /\ budget' = [budget EXCEPT !.moves = @ - 1]
  /\ n # maxResults
  /\ maxResults' = n
  /\ UNCHANGED <<auxVars, mode, status, phrases, error, minThreshold, liveSessionRef,
                 phraseIdCounter, currentQuestionGroup, questionGroupCounter,
                 accumulatedText, handleVars, starts, worldVars, tasks, llmCache,
                 epoch>>

Next ==
  \/ HandleStart
  \/ HandleStop
  \/ \E s \in StartIds : GetUserMediaOk(s)
  \/ \E s \in StartIds : GetUserMediaFail(s)
  \/ \E s \in StartIds : OnOpen(s)
  \/ \E s \in StartIds : ConnectResolved(s)
  \/ \E s \in StartIds : ConnectFail(s)
  \/ \E s \in StartIds : OnError(s)
  \/ \E s \in StartIds, f \in Fragments : OnMessage(s, f)
  \/ \E p \in StartIds : AudioProcess(p)
  \/ \E i \in TaskIds, r \in LLMResponses : LLMSettle(i, r)
  \/ \E i \in TaskIds : LLMFail(i)
  \/ \E i \in TaskIds, r \in SearchResponses : SearchSettle(i, r)
  \/ \E v \in ThresholdChoices : SetMinThreshold(v)
  \/ \E n \in MaxResultsChoices : SetMaxResults(n)

Spec == Init /\ [][Next]_vars

\* every classification request and every search request eventually settles
\* (a request that is in flight stays in flight until it settles, and only
\* finitely many are made, so fairness of settling as a whole settles each one)
Settle ==
  \E i \in LiveTaskIds :
    \/ \E r \in SearchResponses : SearchSettle(i, r)
    \/ \E r \in LLMResponses : LLMSettle(i, r)
    \/ LLMFail(i)

Settling == WF_vars(Settle)

FairSpec == InitLive /\ [][Next]_vars /\ Settling

SpecCache == InitCache /\ [][Next]_vars

\* ------------------------------------------------- the keyword detector alone
\* one more call of detectWithKeywords(text) on the text under test
DetectProbe ==
  /\ Len(probe.results) < MaxProbeCalls
  /\ probe' = [probe EXCEPT !.results = Append(@, DetectWithKeywords(probe.text))]
  /\ UNCHANGED <<clientVars, sent, serverVars>>

IdleRun == [mode |-> "KEYWORD", budget |-> Budget(0, 0, 0, 0)]

InitDetect ==
  /\ InitState(IdleRun, <<>>)
  /\ \E t \in ProbeTexts : probe = [text |-> t, results |-> <<>>]
  /\ NothingSent
  /\ ServerIdle

NextDetect == DetectProbe

SpecDetect == InitDetect /\ [][NextDetect]_vars

\* ------------------------------------------------------------ the backend
Absent == "undefined"          \* a field the JSON body does not have
Omitted == -1                  \* the body has no limit
Falsy(v) == v \in {Absent, ""}

\* req.body.memory of /api/save-memory
Memories ==
  { [given |-> FALSE, classification |-> Absent, description |-> Absent,
     createdAt |-> Absent, embedding |-> Absent] }
  \cup
  { [given |-> TRUE, classification |-> c, description |-> d,
     createdAt |-> x, embedding |-> x] :
      c \in {Absent, "skill"}, d \in {Absent, "", "knows TLA"},
      x \in {Absent, "from the client"} }

SaveBodies == {[memory |-> m, sourceFile |-> f] : m \in Memories, f \in {Absent, "", "cv.md"}}

\* req.body of /api/search-memory
SearchBodies == {[query |-> q, limit |-> l] : q \in {Absent, "", "tla"}, l \in {Omitted, 1, 3}}

\* how ai.models.embedContent can end: an embedding, a result without one, a rejection
EmbedOutcomes == {"values", "empty", "rejects"}

\* res.status(code).json(body)
Respond(req, code, ok, results) ==
  [req EXCEPT !.pc = "responded",
              !.responses = Append(@, [status |-> code, success |-> ok, results |-> results])]

NewRequest(route, body) ==
  [route |-> route, body |-> body, pc |-> "received", embedCalls |-> 0, dbOps |-> 0,
   limit |-> 0, failed |-> FALSE, responses |-> <<>>]

\* variant: a body without description goes on to the embedding call
SaveIsInvalid_SkipsDescription(body) ==
  \/ ~body.memory.given
  \/ Falsy(body.memory.classification)
  \/ Falsy(body.sourceFile)

\* !memory || !memory.classification || !memory.description || !sourceFile
SaveIsInvalid(body) ==
  \/ ~body.memory.given
  \/ Falsy(body.memory.classification)
  \/ Falsy(body.memory.description)
  \/ Falsy(body.sourceFile)

\* variant: the fields of the request's memory object override the server's
DocumentToStore_ClientFieldsWin(body) ==
  [classification |-> body.memory.classification,
   description |-> body.memory.description,
   embedding |-> IF body.memory.embedding = Absent
                 THEN "from the embedding service" ELSE body.memory.embedding,
   sourceFile |-> body.sourceFile,
   createdAt |-> IF body.memory.createdAt = Absent
                 THEN "server time" ELSE body.memory.createdAt]

\* { ...memory, embedding, sourceFile, createdAt: new Date().toISOString() }
DocumentToStore(body) ==
  [classification |-> body.memory.classification,
   description |-> body.memory.description,
   embedding |-> "from the embedding service",
   sourceFile |-> body.sourceFile,
   createdAt |-> "server time"]

\* POST /api/save-memory, up to the await of embedContent
SaveMemoryRequest(body) ==
  /\ budget.requests > 0
  /\ budget' = [budget EXCEPT !.requests = @ - 1]
  /\ requests' = Append(requests,
       IF SaveIsInvalid(body)
       THEN Respond(NewRequest("save", body), 400, FALSE, <<>>)
       ELSE [NewRequest("save", body) EXCEPT !.pc = "embedding", !.embedCalls = 1])
  /\ UNCHANGED <<mode, appVars, handleVars, starts, worldVars, tasks, llmCache, epoch,
                 probe, sent, collection>>

\* variant: a failed embedding call is made once more
SaveEmbedSettle_Retrying(r, outcome) ==
  /\ r \in 1..Len(requests)
  /\ requests[r].route = "save"
  /\ requests[r].pc = "embedding"
  /\ requests' = [requests EXCEPT ![r] =
       IF outcome = "values"
       THEN [@ EXCEPT !.pc = "inserting", !.dbOps = @ + 1]
       ELSE IF requests[r].embedCalls < 2
            THEN [@ EXCEPT !.embedCalls = @ + 1]
            ELSE Respond([@ EXCEPT !.failed = TRUE], 500, FALSE, <<>>)]
  /\ UNCHANGED <<clientVars, probe, sent, collection>>

\* embedContent settles for save request r; insertOne is called and awaited
SaveEmbedSettle(r, outcome) ==
  /\ r \in 1..Len(requests)
  /\ requests[r].route = "save"
  /\ requests[r].pc = "embedding"
  /\ requests' = [requests EXCEPT ![r] =
       IF outcome = "values"
       THEN [@ EXCEPT !.pc = "inserting", !.dbOps = @ + 1]
       ELSE Respond([@ EXCEPT !.failed = TRUE], 500, FALSE, <<>>)]
  /\ UNCHANGED <<clientVars, probe, sent, collection>>

\* insertOne settles for save request r
SaveInsertSettle(r, inserted) ==
  /\ r \in 1..Len(requests)
  /\ requests[r].route = "save"
  /\ requests[r].pc = "inserting"
  /\ collection' = IF inserted
                   THEN Append(collection, DocumentToStore(requests[r].body))
                   ELSE collection
  /\ requests' = [requests EXCEPT ![r] =
       IF inserted THEN Respond(@, 200, TRUE, <<>>)
       ELSE Respond([@ EXCEPT !.failed = TRUE], 500, FALSE, <<>>)]
  /\ UNCHANGED <<clientVars, probe, sent>>

\* variant: an omitted limit falls back to the client's default of 3
LimitOf_ClientDefault(body) ==
  IF body.limit = Omitted THEN DEFAULT_MAX_RESULTS ELSE body.limit

\* const { query, limit = 5 } = req.body
LimitOf(body) ==
  IF body.limit = Omitted THEN SERVER_DEFAULT_LIMIT ELSE body.limit

\* POST /api/search-memory, up to the await of embedContent
SearchMemoryRequest(body) ==
  /\ budget.requests > 0
  /\ budget' = [budget EXCEPT !.requests = @ - 1]
  /\ requests' = Append(requests,
       IF Falsy(body.query)
       THEN Respond(NewRequest("search", body), 400, FALSE, <<>>)
       ELSE [NewRequest("search", body) EXCEPT !.pc = "embedding", !.embedCalls = 1,
                                              !.limit = LimitOf(body)])
  /\ UNCHANGED <<mode, appVars, handleVars, starts, worldVars, tasks, llmCache, epoch,
                 probe, sent, collection>>

\* embedContent settles for search request r; the aggregation is started and awaited
SearchEmbedSettle(r, outcome) ==
  /\ r \in 1..Len(requests)
  /\ requests[r].route = "search"
  /\ requests[r].pc = "embedding"
  /\ requests' = [requests EXCEPT ![r] =
       IF outcome = "values"
       THEN [@ EXCEPT !.pc = "searching", !.dbOps = @ + 1]
       ELSE Respond([@ EXCEPT !.failed = TRUE], 500, FALSE, <<>>)]
  /\ UNCHANGED <<clientVars, probe, sent, collection>>

\* $project: the stored fields that are returned, and the score of the match
Project(doc, score) ==
  [classification |-> doc.classification, description |-> doc.description,
   sourceFile |-> doc.sourceFile, createdAt |-> doc.createdAt, score |-> score]

\* $vectorSearch with limit: at most limit records, here in stored order
VectorSearch(coll, limit) ==
  [k \in 1..(IF Len(coll) < limit THEN Len(coll) ELSE limit) |-> Project(coll[k], 100 - k)]

\* the aggregation settles for search request r
SearchAggregateSettle(r, found) ==
  /\ r \in 1..Len(requests)
  /\ requests[r].route = "search"
  /\ requests[r].pc = "searching"
  /\ requests' = [requests EXCEPT ![r] =
       IF found
       THEN Respond(@, 200, TRUE, VectorSearch(collection, requests[r].limit))
       ELSE Respond([@ EXCEPT !.failed = TRUE], 500, FALSE, <<>>)]
  /\ UNCHANGED <<clientVars, probe, sent, collection>>

\* the records stored by earlier save-memory requests
Stored(n) ==
  [k \in 1..n |-> [classification |-> "skill", description |-> "knows TLA",
                   embedding |-> "from the embedding service",
                   sourceFile |-> "cv.md", createdAt |-> "server time"]]

RequestIds == 1..MaxRequests

\* the run in which the backend receives requests and the browser does nothing
ServerRun == [mode |-> "KEYWORD", budget |-> WithRequests(Budget(0, 0, 0, 0), MaxRequests)]

InitServer ==
  /\ InitState(ServerRun, <<>>)
  /\ AuxIdle
  /\ NothingSent
  /\ requests = <<>>
  /\ \E n \in {0, MaxStored} : collection = Stored(n)

NextServer ==
  \/ \E b \in SaveBodies : SaveMemoryRequest(b)
  \/ \E r \in RequestIds, o \in EmbedOutcomes : SaveEmbedSettle(r, o)
  \/ \E r \in RequestIds, ok \in BOOLEAN : SaveInsertSettle(r, ok)
  \/ \E b \in SearchBodies : SearchMemoryRequest(b)
  \/ \E r \in RequestIds, o \in EmbedOutcomes : SearchEmbedSettle(r, o)
  \/ \E r \in RequestIds, ok \in BOOLEAN : SearchAggregateSettle(r, ok)

SpecServer == InitServer /\ [][NextServer]_vars

\* ------------------------------------------- the browser and the backend
\* a behaviour of the pipeline is a run of the browser or a run of the backend
\* that begins with an empty collection
InitPipeline == InitLive \/ (InitServer /\ collection = <<>>)

NextPipeline ==
  \/ HandleStart
  \/ HandleStop
  \/ \E s \in StartIds : GetUserMediaOk(s)
  \/ \E s \in StartIds : GetUserMediaFail(s)
  \/ \E s \in StartIds : OnOpen(s)
  \/ \E s \in StartIds : ConnectResolved(s)
  \/ \E s \in StartIds : ConnectFail(s)
  \/ \E s \in StartIds : OnError(s)
  \/ \E s \in StartIds, f \in Fragments : OnMessage(s, f)
  \/ \E p \in StartIds : AudioProcess(p)
  \/ \E i \in TaskIds, r \in LLMResponses : LLMSettle(i, r)
  \/ \E i \in TaskIds : LLMFail(i)
  \/ \E i \in TaskIds, r \in SearchResponses : SearchSettle(i, r)
  \/ \E v \in ThresholdChoices : SetMinThreshold(v)
  \/ \E n \in MaxResultsChoices : SetMaxResults(n)
  \/ \E b \in SaveBodies : SaveMemoryRequest(b)
  \/ \E r \in RequestIds, o \in EmbedOutcomes : SaveEmbedSettle(r, o)
  \/ \E r \in RequestIds, ok \in BOOLEAN : SaveInsertSettle(r, ok)
  \/ \E b \in SearchBodies : SearchMemoryRequest(b)
  \/ \E r \in RequestIds, o \in EmbedOutcomes : SearchEmbedSettle(r, o)
  \/ \E r \in RequestIds, ok \in BOOLEAN : SearchAggregateSettle(r, ok)

SpecPipeline == InitPipeline /\ [][NextPipeline]_vars

\* ------------------------------------------------------------ observations
RECURSIVE GroupText(_, _)
\* the texts of the displayed fragments of group g, joined in display order
GroupText(ph, g) ==
  IF ph = <<>> THEN <<>>
  ELSE (IF Head(ph).questionGroupId = g THEN Head(ph).text ELSE <<>>)
         \o GroupText(Tail(ph), g)

PhraseIx == 1..Len(phrases)
TaskIx == 1..Len(tasks)
GroupIx(g) == {k \in PhraseIx : phrases[k].questionGroupId = g}
CurrentTasks == {i \in TaskIx : tasks[i].epoch = epoch}
TasksOfGroup(g) == {i \in CurrentTasks : tasks[i].groupId = g}
Pending(i) == tasks[i].pc \in {"llm", "searching"}

\* C1: within a session, whenever a classification/search chain of a group is
\* pending or has applied its annotation, every fragment of that group is
\* already in the display list: the displayed fragments of the group, joined in
\* order, are the text that was classified.  Display always precedes annotation.
C1_DisplayPrecedesAnnotation ==
  \A i \in CurrentTasks :
    /\ GroupIx(tasks[i].groupId) # {}
    /\ GroupText(phrases, tasks[i].groupId) = tasks[i].fullText

\* an annotation that landed after a later fragment had already been displayed
C1_Witness ==
  \E i \in CurrentTasks :
    /\ tasks[i].applied
    /\ Cardinality(GroupIx(tasks[i].groupId)) >= 2
    /\ \A k \in GroupIx(tasks[i].groupId) : phrases[k].isQuestion
    /\ \E k \in PhraseIx : phrases[k].questionGroupId > tasks[i].groupId
                           /\ ~phrases[k].isQuestion

\* C2: once the annotation of a group of the running session has been applied,
\* every displayed fragment of that group is marked, and two displayed fragments
\* with the same group id never differ in isQuestion or searchResults.
C2_UniformGroupAnnotation ==
  /\ \A i \in CurrentTasks :
       tasks[i].applied =>
         \A k \in GroupIx(tasks[i].groupId) : phrases[k].isQuestion
  /\ \A k, l \in PhraseIx :
       phrases[k].questionGroupId = phrases[l].questionGroupId =>
         /\ phrases[k].isQuestion = phrases[l].isQuestion
         /\ phrases[k].hasSearchResults = phrases[l].hasSearchResults
         /\ phrases[k].searchResults = phrases[l].searchResults

\* C3: fragments up to and including the first one with punctuation share one
\* group id; each displayed group that has its punctuation has exactly one
\* classification call, made on the concatenation of its fragments, and the
\* punctuated fragment is its last; a group without punctuation has no call.
C3_OneCallPerSentence ==
  /\ \A k \in PhraseIx :
       (k < Len(phrases) /\ ~HasPunctuation(phrases[k].text)) =>
         phrases[k + 1].questionGroupId = phrases[k].questionGroupId
  /\ \A k \in PhraseIx :
       LET g == phrases[k].questionGroupId
       IN  IF HasPunctuation(phrases[k].text)
           THEN /\ Cardinality(TasksOfGroup(g)) = 1
                /\ \A i \in TasksOfGroup(g) : tasks[i].fullText = GroupText(phrases, g)
                /\ \A l \in GroupIx(g) : l <= k
           ELSE (\A l \in GroupIx(g) : ~HasPunctuation(phrases[l].text)) =>
                   TasksOfGroup(g) = {}
  /\ Cardinality(CurrentTasks) =
       Cardinality({k \in PhraseIx : HasPunctuation(phrases[k].text)})

\* three fragments, punctuation on the third only, one call on the concatenation
C3_Witness ==
  /\ Len(phrases) = 3
  /\ ~HasPunctuation(phrases[1].text) /\ ~HasPunctuation(phrases[2].text)
  /\ HasPunctuation(phrases[3].text)
  /\ phrases[1].questionGroupId = phrases[3].questionGroupId
  /\ \E i \in CurrentTasks :
       tasks[i].fullText = phrases[1].text \o phrases[2].text \o phrases[3].text

\* C4: when the last fragment delivered had punctuation, the buffer is empty
\* and no group is open, whatever became of the classification; the fragment
\* that follows a punctuated one carries a group id no earlier displayed
\* fragment has.
C4_ResetAfterPunctuation ==
  /\ (phrases # <<>> /\ HasPunctuation(phrases[Len(phrases)].text)) =>
        (accumulatedText = <<>> /\ currentQuestionGroup = NoGroup)
  /\ \A k \in PhraseIx :
       (k < Len(phrases) /\ HasPunctuation(phrases[k].text)) =>
         \A l \in 1..k : phrases[l].questionGroupId # phrases[k + 1].questionGroupId

\* a new group was opened while the classification of the closed one is unsettled
C4_Witness ==
  \E k \in PhraseIx :
    /\ k < Len(phrases)
    /\ HasPunctuation(phrases[k].text)
    /\ phrases[k + 1].questionGroupId # phrases[k].questionGroupId
    /\ \E i \in TasksOfGroup(phrases[k].questionGroupId) : Pending(i)

ClassifiedAs(i, q) ==
  i \in TaskIx /\ tasks[i].pc \in {"searching", "done"} /\ tasks[i].isQuestion = q
Annotated(i) == i \in TaskIx /\ tasks[i].pc = "done" /\ tasks[i].applied

\* C5: when every request eventually settles, the chain of every group that
\* was classified as a question eventually applies its annotation update, and
\* the chain of a group classified as not a question never applies one.
C5_QuestionsEventuallyAnnotated ==
  /\ \A i \in LiveTaskIds : ClassifiedAs(i, TRUE) ~> Annotated(i)
  /\ [](\A i \in TaskIx : ClassifiedAs(i, FALSE) => ~tasks[i].applied)

\* a later group is annotated while an earlier group's search is still in flight
C5_Witness ==
  \E i, j \in CurrentTasks :
    /\ i < j
    /\ tasks[i].pc = "searching"
    /\ Annotated(j)
    /\ \A k \in GroupIx(tasks[j].groupId) : phrases[k].isQuestion

SearchFailsFor(i) ==
  /\ i \in TaskIx
  /\ tasks[i].pc = "searching"
  /\ tasks'[i].pc = "done"
  /\ tasks'[i].searched = "rejected"

\* C6: the step in which a question group's memory search fails marks the
\* group's fragments isQuestion with an empty result list, leaves the status
\* and the error message alone, and leaves the aggregator (buffer, open group,
\* counters, the other fragments) as it was.
C6_FailedSearchDegrades ==
  [][\A i \in TaskIds :
       SearchFailsFor(i) =>
         /\ tasks'[i].applied
         /\ Len(phrases') = Len(phrases)
         /\ \A k \in PhraseIx :
              IF phrases[k].questionGroupId = tasks[i].groupId
              THEN /\ phrases'[k].isQuestion
                   /\ phrases'[k].hasSearchResults
                   /\ phrases'[k].searchResults = <<>>
              ELSE phrases'[k] = phrases[k]
         /\ status' = status
         /\ error' = error
         /\ UNCHANGED <<accumulatedText, currentQuestionGroup, questionGroupCounter,
                        phraseIdCounter, liveSessionRef, session, connState>>]_vars

\* after a failed search the group is marked with no results, and a fragment
\* delivered afterwards has been displayed and classified in its turn
C6_Witness ==
  \E i, j \in CurrentTasks :
    /\ i < j
    /\ tasks[i].searched = "rejected"
    /\ tasks[i].applied
    /\ \A k \in GroupIx(tasks[i].groupId) :
         phrases[k].isQuestion /\ phrases[k].hasSearchResults
         /\ phrases[k].searchResults = <<>>
    /\ GroupIx(tasks[j].groupId) # {}
    /\ status = "LISTENING"
    /\ error = "null"

Range(s) == {s[k] : k \in 1..Len(s)}
Position(s, x) == CHOOSE k \in 1..Len(s) : s[k] = x

KeptExactly(kept, allResults, threshold) ==
  /\ Range(kept) \subseteq Range(allResults)
  /\ \A x \in Range(kept) : x.score >= threshold
  /\ \A x \in Range(allResults) : x.score >= threshold => x \in Range(kept)
  /\ Cardinality(Range(kept)) = Len(kept)
  /\ \A a, b \in 1..Len(kept) :
       a < b => Position(allResults, kept[a]) < Position(allResults, kept[b])

SearchResolvesFor(i) ==
  /\ i \in TaskIx
  /\ tasks[i].pc = "searching"
  /\ tasks'[i].pc = "done"
  /\ tasks'[i].searched = "resolved"

\* C7: the step in which a search resolves attaches to the group's fragments
\* exactly the returned results whose score is at least the threshold of that
\* chain, in the order returned: nothing below the threshold, nothing at or
\* above it missing, nothing twice.
C7_ThresholdFilter ==
  [][\A i \in TaskIds :
       SearchResolvesFor(i) =>
         \A k \in PhraseIx :
           phrases[k].questionGroupId = tasks[i].groupId =>
             /\ phrases'[k].hasSearchResults
             /\ KeptExactly(phrases'[k].searchResults, tasks'[i].allResults,
                            tasks[i].currentMinThreshold)]_vars

\* a result at the threshold was kept and one below it dropped
C7_Witness ==
  \E i \in CurrentTasks :
    /\ tasks[i].searched = "resolved"
    /\ \E x \in Range(tasks[i].allResults) : x.score < tasks[i].currentMinThreshold
    /\ \E k \in GroupIx(tasks[i].groupId) :
         /\ phrases[k].hasSearchResults
         /\ Len(phrases[k].searchResults) >= 2
         /\ \E x \in Range(phrases[k].searchResults) :
              x.score = tasks[i].currentMinThreshold

Classified(i) == tasks[i].pc \in {"searching", "done"}

\* C8: two calls of detectWithLLM with the same text never both go to the
\* network, and they return the same boolean, whenever the second call is made.
C8_SameTextClassifiedOnce ==
  \A i, j \in TaskIx :
    (mode = "LLM" /\ i < j /\ tasks[i].fullText = tasks[j].fullText) =>
      /\ ~(tasks[i].net /\ tasks[j].net)
      /\ (Classified(i) /\ Classified(j)) => tasks[i].isQuestion = tasks[j].isQuestion

CallMade == Len(tasks') = Len(tasks) + 1

\* C8, as amended: a call of detectWithLLM made while the cache holds an entry
\* for its text returns the cached boolean, makes no network request and
\* leaves the cache as it is; and every cached value is the answer the
\* classifier gave to a call with that text.
C8_CacheHitServesCall ==
  /\ [](\A c \in 1..Len(llmCache) :
          \E i \in TaskIx : /\ tasks[i].via = "llm"
                            /\ tasks[i].fullText = llmCache[c].key
                            /\ tasks[i].isQuestion = llmCache[c].value)
  /\ [][(mode = "LLM" /\ CallMade
           /\ CacheHas(llmCache, tasks'[Len(tasks')].fullText)) =>
          /\ ~tasks'[Len(tasks')].net
          /\ tasks'[Len(tasks')].via = "cache"
          /\ tasks'[Len(tasks')].isQuestion = CacheGet(llmCache, tasks'[Len(tasks')].fullText)
          /\ llmCache' = llmCache]_vars

\* a second call with the same text was answered from the cache
C8_Witness ==
  \E i, j \in TaskIx :
    /\ i < j
    /\ tasks[i].fullText = tasks[j].fullText
    /\ tasks[i].via = "llm" /\ tasks[i].net
    /\ tasks[j].via = "cache" /\ ~tasks[j].net
    /\ tasks[i].isQuestion = tasks[j].isQuestion

KeySeq(cache) == [c \in 1..Len(cache) |-> cache[c].key]

AnswerCached(i) ==
  /\ i \in TaskIx
  /\ tasks[i].pc = "llm"
  /\ tasks'[i].via = "llm"

\* C9: the cache never holds more than 100 entries; a classifier answer for a
\* text already cached keeps the order of the keys, an answer for a new text
\* goes last, and when that takes the size past 100 exactly the first key (the
\* one inserted earliest) is dropped; a cache hit changes nothing.
C9_CacheBoundFifo ==
  /\ [](Len(llmCache) <= CACHE_LIMIT)
  /\ [][CallMade => llmCache' = llmCache]_vars
  /\ [][\A i \in TaskIds :
          AnswerCached(i) =>
            LET text == tasks[i].fullText
            IN  IF CacheHas(llmCache, text)
                THEN KeySeq(llmCache') = KeySeq(llmCache)
                ELSE IF Len(llmCache) < CACHE_LIMIT
                THEN KeySeq(llmCache') = Append(KeySeq(llmCache), text)
                ELSE KeySeq(llmCache') = Append(Tail(KeySeq(llmCache)), text)]_vars

\* the oldest entry was served as a cache hit and then evicted by the next insertion
C9_Witness ==
  /\ Len(llmCache) = CACHE_LIMIT
  /\ ~CacheHas(llmCache, Txt_q)
  /\ CacheHas(llmCache, Filler(1))
  /\ \E i, j \in TaskIx :
       /\ i < j
       /\ tasks[i].fullText = Txt_q /\ tasks[i].via = "cache"
       /\ tasks[j].via = "llm" /\ llmCache[Len(llmCache)].key = tasks[j].fullText

\* C10: a classifier failure in LLM mode resolves the call with the value of
\* keyword detection for the same text; no call ends rejected.
C10_FallbackToKeywords ==
  \A i \in TaskIx :
    /\ tasks[i].pc # "rejected"
    /\ tasks[i].via = "fallback" =>
         /\ tasks[i].isQuestion = DetectWithKeywords(tasks[i].fullText)
         /\ ~tasks[i].isQuestion => tasks[i].pc = "done"

\* a failed call on a text without '?' that keyword detection takes for a question
C10_Witness ==
  \E i \in TaskIx :
    /\ tasks[i].via = "fallback" /\ tasks[i].isQuestion
    /\ tasks[i].pc = "searching"
    /\ ~Includes(tasks[i].fullText, <<"?">>)

\* the text has the characters of kw at some position, letter case aside
ContainsIgnoringCase(text, kw) ==
  \E i \in 1..(Len(text) - Len(kw) + 1) :
    \A j \in 1..Len(kw) : ToLowerChar(text[i + j - 1]) = ToLowerChar(kw[j])

ExpectedDetection(text) ==
  \/ \E i \in 1..Len(text) : text[i] = "?"
  \/ \E k \in 1..Len(interviewKeywords) : ContainsIgnoringCase(text, interviewKeywords[k])

\* C11: every call of the keyword detector returns true exactly when the text
\* has a '?' or has one of the trigger phrases as a substring, letter case
\* aside, and false otherwise; repeated calls on one text return the same value.
C11_KeywordDetection ==
  \A k \in 1..Len(probe.results) : probe.results[k] = ExpectedDetection(probe.text)

\* a text with a trigger phrase in mixed case and no '?', followed by a blank,
\* was detected on both calls
C11_Witness ==
  /\ probe.text = <<"T", "E", "A", "m", " ">>
  /\ probe.results = <<TRUE, TRUE>>

\* a step in which stop() runs: Stop or Start with a session control at hand,
\* or the catch block of startLiveTranscription
StopRuns ==
  \/ HandleStop /\ liveSessionRef
  \/ HandleStart /\ liveSessionRef
  \/ \E s \in StartIds : GetUserMediaFail(s)
  \/ \E s \in StartIds : ConnectFail(s)

HandlesCleared ==
  /\ session = Null
  /\ mediaStream = Null
  /\ scriptProcessor = Null
  /\ mediaStreamSource = Null
  /\ audioContext = Null

\* C12: a step in which stop() runs closes the streaming session, stops the
\* media stream, disconnects both processing nodes and closes the audio
\* context that the module-level handles referred to, and leaves all five
\* handles cleared; a stop() that finds the handles cleared releases nothing
\* more; and an audio chunk is only ever sent while the session handle is set,
\* on that session's open connection.
C12_StopTearsDown ==
  [][/\ StopRuns =>
          /\ HandlesCleared'
          /\ session # Null => connState'[session] = "closed"
          /\ mediaStream # Null => streamState'[mediaStream] = "stopped"
          /\ scriptProcessor # Null => procState'[scriptProcessor] = "disconnected"
          /\ mediaStreamSource # Null => srcState'[mediaStreamSource] = "disconnected"
          /\ audioContext # Null => ctxState'[audioContext] = "closed"
          /\ HandlesCleared =>
                /\ UNCHANGED <<streamState, ctxState, procState, srcState>>
                /\ \A s \in StartIds : connState[s] = "open" => connState'[s] = "open"
     /\ \A s \in StartIds :
          sent'[s] # sent[s] => session = s /\ connState[s] = "open"]_vars

\* a session that had sent audio was stopped and everything it held released;
\* the next start failed at the microphone and ran stop() a second time
C12_Witness ==
  /\ Len(starts) = 2
  /\ sent[1] > 0
  /\ connState[1] = "closed"
  /\ streamState[1] = "stopped"
  /\ procState[1] = "disconnected"
  /\ srcState[1] = "disconnected"
  /\ ctxState[1] = "closed"
  /\ starts[2].pc = "threw"
  /\ streamState[2] = "none"
  /\ HandlesCleared

\* the result list the update of chain i is given once its search has settled
ResultsGiven(t) ==
  IF t.searched = "resolved"
  THEN FilterByThreshold(t.allResults, t.currentMinThreshold)
  ELSE <<>>

\* C13: the step that stops the session leaves every chain as it was, in
\* flight if it was in flight; a classification that settles while the status
\* is STOPPED goes on to search if the text is a question, and a search that
\* settles while the status is STOPPED marks every displayed fragment of its
\* group isQuestion and attaches the filtered results.
C13_StopDoesNotCancel ==
  [][/\ (status' = "STOPPED" /\ status # "STOPPED") => tasks' = tasks
     /\ \A i \in TaskIds :
          (i \in TaskIx /\ status = "STOPPED") =>
            /\ (tasks[i].pc = "llm" /\ tasks'[i].pc # "llm" /\ tasks'[i].isQuestion)
                  => tasks'[i].pc = "searching"
            /\ (tasks[i].pc = "searching" /\ tasks'[i].pc # "searching")
                  => /\ tasks'[i].applied
                     /\ Len(phrases') = Len(phrases)
                     /\ \A k \in PhraseIx :
                          phrases[k].questionGroupId = tasks[i].groupId
                            => /\ phrases'[k].isQuestion
                               /\ phrases'[k].searchResults = ResultsGiven(tasks'[i])]_vars

\* the session has been stopped while the search of a displayed question is
\* still in flight: the chain is where it was and its update is still to come
C13_Witness ==
  /\ status = "STOPPED"
  /\ \E i \in TaskIx :
       /\ tasks[i].epoch = epoch
       /\ tasks[i].pc = "searching"
       /\ ~tasks[i].applied
       /\ \E k \in PhraseIx :
            /\ phrases[k].questionGroupId = tasks[i].groupId
            /\ ~phrases[k].isQuestion

\* no connection is up, no microphone stream is live, no audio context runs
AllReleased ==
  \A s \in StartIds :
    /\ connState[s] \notin {"connecting", "open"}
    /\ streamState[s] # "live"
    /\ ctxState[s] # "running"
    /\ procState[s] # "connected"
    /\ srcState[s] # "connected"

\* C14: the step in which a connection reports an error sets the status to
\* ERROR and sets the error message, and leaves the session torn down: the
\* handles cleared, the connection closed and the audio resources released.
C14_ErrorTearsDown ==
  [][(\E s \in StartIds : OnError(s)) =>
       /\ status' = "ERROR"
       /\ error' = "error_occurred"
       /\ HandlesCleared'
       /\ AllReleased']_vars

RequestIx == 1..Len(requests)
SaveIx == {r \in RequestIx : requests[r].route = "save"}
SearchIx == {r \in RequestIx : requests[r].route = "search"}

\* one of the four required parts of a save-memory body is not there
SaveLacksField(body) ==
  \/ ~body.memory.given
  \/ body.memory.classification = Absent
  \/ body.memory.description = Absent
  \/ body.sourceFile = Absent

\* C15: a save-memory request whose body lacks memory, memory.classification,
\* memory.description or sourceFile has been answered with 400 and
\* success=false, and no embedding call and no insert was made for it.
C15_SaveValidation ==
  \A r \in SaveIx :
    SaveLacksField(requests[r].body) =>
      /\ requests[r].responses = <<[status |-> 400, success |-> FALSE, results |-> <<>>]>>
      /\ requests[r].embedCalls = 0
      /\ requests[r].dbOps = 0

\* a body that lacks only its description was rejected without an embedding
\* call, while a complete body went on to the embedding call
C15_Witness ==
  \E r, q \in SaveIx :
    /\ requests[r].body.memory.given
    /\ requests[r].body.memory.classification = "skill"
    /\ requests[r].body.memory.description = Absent
    /\ requests[r].body.sourceFile = "cv.md"
    /\ requests[r].pc = "responded"
    /\ requests[q].embedCalls = 1
    /\ ~SaveLacksField(requests[q].body)

\* the limit a search-memory request asks for: its own, or the server's default
LimitAsked(body) ==
  IF body.limit = Omitted THEN SERVER_DEFAULT_LIMIT ELSE body.limit

\* the answers of a search-memory request, given when 400 is the answer
SearchAnswers(r, rejected) ==
  LET req == requests[r]
      res == req.responses
  IN  /\ Len(res) <= 1
      /\ req.pc = "responded" <=> Len(res) = 1
      /\ rejected => /\ res = <<[status |-> 400, success |-> FALSE, results |-> <<>>]>>
                     /\ req.embedCalls = 0
                     /\ req.dbOps = 0
      /\ (~rejected /\ Len(res) = 1) =>
           /\ req.limit = LimitAsked(req.body)
           /\ IF req.failed
              THEN res[1].status = 500 /\ ~res[1].success /\ res[1].results = <<>>
              ELSE /\ res[1].status = 200 /\ res[1].success
                   /\ Len(res[1].results) <= LimitAsked(req.body)

\* C16: every search-memory request gets at most one response, and exactly
\* one once its handler has finished: 400 and success=false with no embedding
\* or datastore call when query is absent, 500 and success=false when the
\* embedding call or the search failed, and in every other case 200 and
\* success=true with the result list, cut at the limit asked for or at the
\* server's default when the body has no limit.
C16_SearchResponses ==
  \A r \in SearchIx : SearchAnswers(r, requests[r].body.query = Absent)

\* C16, as amended: the same, with 400 as the answer when query is absent or
\* empty.
C16_SearchResponsesFalsyQuery ==
  \A r \in SearchIx : SearchAnswers(r, Falsy(requests[r].body.query))

\* a request without limit was answered with the server's default number of
\* records, one with an empty query with 400
C16_Witness ==
  \E r, q \in SearchIx :
    /\ requests[r].body.limit = Omitted
    /\ requests[r].pc = "responded"
    /\ requests[r].responses[1].status = 200
    /\ Len(requests[r].responses[1].results) = SERVER_DEFAULT_LIMIT
    /\ requests[q].body.query = ""
    /\ requests[q].pc = "responded"
    /\ requests[q].responses[1].status = 400

\* C17: the step in which the request of a searchMemories call ends resolves
\* the call with exactly the result list of the response if the request got
\* through, the HTTP status was OK and the body said success; it rejects the
\* call if the request failed on the network, if the HTTP status was not OK,
\* or if the body said success=false.  A call never resolves in place of an
\* error.
C17_SearchResolvesOrRejects ==
  [][\A i \in TaskIds, response \in SearchResponses :
       SearchSettle(i, response) =>
         /\ response.kind = "ok" =>
              /\ tasks'[i].searched = "resolved"
              /\ tasks'[i].allResults = response.results
         /\ response.kind \in {"network_error", "http_not_ok", "success_false"} =>
              tasks'[i].searched = "rejected"]_vars

\* one call has rejected and another has resolved with the three records of
\* its response
C17_Witness ==
  \E i, j \in TaskIx :
    /\ tasks[i].searched = "rejected"
    /\ tasks[j].searched = "resolved"
    /\ Len(tasks[j].allResults) = 3

\* the step in which the search of chain i ends and its annotation update runs
AnnotationUpdateOf(i) ==
  /\ i \in TaskIx
  /\ tasks[i].pc = "searching"
  /\ tasks'[i].pc = "done"

\* C18: the step of an annotation update keeps the number and the order of
\* the displayed fragments and the id, text, isFinal and questionGroupId of
\* each; a fragment of another group is unchanged in every field.
C18_AnnotationFrame ==
  [][\A i \in TaskIds :
       AnnotationUpdateOf(i) =>
         /\ Len(phrases') = Len(phrases)
         /\ \A k \in PhraseIx :
              /\ phrases'[k].id = phrases[k].id
              /\ phrases'[k].text = phrases[k].text
              /\ phrases'[k].isFinal = phrases[k].isFinal
              /\ phrases'[k].questionGroupId = phrases[k].questionGroupId
              /\ phrases[k].questionGroupId # tasks[i].groupId
                   => phrases'[k] = phrases[k]]_vars

\* a question has been annotated with a result while the statement displayed
\* before it and the fragment displayed after it are as they were created
C18_Witness ==
  /\ Len(phrases) = 3
  /\ ~phrases[1].isQuestion /\ ~phrases[1].hasSearchResults
  /\ phrases[2].isQuestion /\ phrases[2].searchResults = <<R(1, 50)>>
  /\ ~phrases[3].isQuestion /\ ~phrases[3].hasSearchResults
  /\ phrases[1].questionGroupId # phrases[2].questionGroupId
  /\ phrases[3].questionGroupId # phrases[2].questionGroupId

\* the display list of one session: each fragment has a group id, the
\* fragments of one id are next to each other, and a fragment displayed after
\* the end of a sentence has another id than that sentence
GroupsWellFormed ==
  /\ \A k \in PhraseIx : phrases[k].questionGroupId \in Nat
  /\ \A k, l \in PhraseIx :
       (k < l /\ phrases[k].questionGroupId = phrases[l].questionGroupId)
         => \A m \in k..l : phrases[m].questionGroupId = phrases[k].questionGroupId
  /\ \A k, l \in PhraseIx :
       (k < l /\ HasPunctuation(phrases[k].text))
         => phrases[l].questionGroupId # phrases[k].questionGroupId

\* C19: between two resets of the transcript the display list is well formed
\* in the sense above at every moment, and no step changes the group id of a
\* fragment that stays displayed.
C19_GroupIds ==
  /\ []GroupsWellFormed
  /\ [][epoch' = epoch =>
          \A k \in PhraseIx :
            /\ k <= Len(phrases')
            /\ phrases'[k].questionGroupId = phrases[k].questionGroupId]_vars

\* two fragments of one sentence followed by the first fragment of the next
C19_Witness ==
  /\ Len(phrases) = 3
  /\ phrases[1].questionGroupId = phrases[2].questionGroupId
  /\ ~HasPunctuation(phrases[1].text)
  /\ HasPunctuation(phrases[2].text)
  /\ phrases[3].questionGroupId # phrases[2].questionGroupId

\* C20: the ids of the displayed fragments grow strictly along the list; the
\* arrival of a fragment puts that fragment, with its text, at the end of the
\* list; and no step between two resets of the transcript removes a displayed
\* fragment or moves it to another place.
C20_ArrivalOrder ==
  /\ [](\A k, l \in PhraseIx : k < l => phrases[k].id < phrases[l].id)
  /\ [][/\ \A s \in StartIds, f \in Fragments :
             OnMessage(s, f) =>
               /\ Len(phrases') = Len(phrases) + 1
               /\ phrases'[Len(phrases')].text = f.text
               /\ phrases'[Len(phrases')].isFinal = f.isFinal
        /\ epoch' = epoch =>
             /\ Len(phrases') \in {Len(phrases), Len(phrases) + 1}
             /\ \A k \in PhraseIx :
                  /\ phrases'[k].id = phrases[k].id
                  /\ phrases'[k].text = phrases[k].text]_vars

\* three fragments are displayed in the order they came in, the second one
\* annotated since
C20_Witness ==
  /\ Len(phrases) = 3
  /\ phrases[1].text = Txt_te /\ phrases[1].id = 0
  /\ phrases[2].text = Txt_q /\ phrases[2].id = 1 /\ phrases[2].isQuestion
  /\ phrases[3].text = Txt_am /\ phrases[3].id = 2

\* the chain of task i is the only thing a step changes among the chains
OnlyChainChanged(i) ==
  /\ Len(tasks') = Len(tasks)
  /\ \A j \in TaskIx : j # i => tasks'[j] = tasks[j]

\* C21: nothing is tried a second time.  A closed group of the running session
\* has one chain; the step that ends its classification request, with an
\* answer or with a failure, moves the chain on to the search or ends it, the
\* step that ends its search request ends the chain, a chain that has ended
\* stays as it is, and none of these steps touches another chain.  A
\* save-memory or search-memory request makes at most one embedding call and
\* one datastore operation, is left alone once it has been answered, and its
\* failure changes neither another request nor the collection.
C21_NoRetry ==
  /\ [](\A k \in PhraseIx : Cardinality(TasksOfGroup(phrases[k].questionGroupId)) <= 1)
  /\ [](\A r \in 1..Len(requests) :
          requests[r].embedCalls <= 1 /\ requests[r].dbOps <= 1)
  /\ [][/\ \A i \in TaskIds :
             (LLMFail(i) \/ \E response \in LLMResponses : LLMSettle(i, response)) =>
               /\ tasks'[i].pc \in {"searching", "done"}
               /\ OnlyChainChanged(i)
        /\ \A i \in TaskIds :
             (\E response \in SearchResponses : SearchSettle(i, response)) =>
               /\ tasks'[i].pc = "done"
               /\ OnlyChainChanged(i)
        /\ \A i \in TaskIx : tasks[i].pc = "done" => tasks'[i] = tasks[i]
        /\ \A r \in 1..Len(requests) :
             /\ requests[r].pc = "responded" => requests'[r] = requests[r]
             /\ (requests'[r].failed /\ ~requests[r].failed) =>
                  /\ requests'[r].pc = "responded"
                  /\ collection' = collection
                  /\ \A q \in 1..Len(requests) : q # r => requests'[q] = requests[q]]_vars

\* the search of the first sentence failed and its chain ended there; the
\* second sentence was classified and searched in its turn, and its search
\* came back with a result
C21_Witness ==
  /\ Len(tasks) = 2
  /\ tasks[1].epoch = epoch /\ tasks[2].epoch = epoch
  /\ tasks[1].pc = "done" /\ tasks[1].searched = "rejected"
  /\ tasks[2].pc = "done" /\ tasks[2].searched = "resolved"
  /\ tasks[2].allResults = <<R(1, 50)>>
  /\ tasks[2].applied

\* C22: the chain started by a punctuated fragment carries the threshold and
\* the result limit that the two controls show when that fragment arrives,
\* and no later step changes what a chain carries.
C22_ControlsReadAtArrival ==
  [][/\ \A s \in StartIds, f \in Fragments :
          (OnMessage(s, f) /\ HasPunctuation(f.text)) =>
            /\ tasks'[Len(tasks')].currentMinThreshold = minThreshold
            /\ tasks'[Len(tasks')].currentMaxResults = maxResults
     /\ \A i \in TaskIx :
          /\ tasks'[i].currentMinThreshold = tasks[i].currentMinThreshold
          /\ tasks'[i].currentMaxResults = tasks[i].currentMaxResults]_vars

\* C23: in KEYWORD mode every classification is the value isTextAQuestion
\* gives for the same text, is made without a network request and leaves the
\* cache of the classifier unread and unwritten; in LLM mode a settled call
\* returns what the classifier answered; in both modes the answer alone
\* decides whether the chain goes on to search.
C23_ModesInterchangeable ==
  /\ [](mode = "KEYWORD" =>
          \A i \in TaskIx :
            /\ tasks[i].via = "keyword"
            /\ ~tasks[i].net
            /\ tasks[i].pc # "llm"
            /\ tasks[i].isQuestion = IsTextAQuestion(tasks[i].fullText))
  /\ [](\A i \in TaskIx :
          tasks[i].via # "pending" =>
            /\ tasks[i].pc \in {"searching", "done"}
            /\ tasks[i].isQuestion <=>
                 (tasks[i].pc = "searching" \/ tasks[i].searched # "pending"))
  /\ [][/\ mode = "KEYWORD" => llmCache' = llmCache
        /\ \A i \in TaskIds, response \in LLMResponses :
             LLMSettle(i, response) =>
               /\ mode = "LLM"
               /\ tasks'[i].via = "llm"
               /\ tasks'[i].isQuestion = ResponseSaysYes(response)]_vars

\* in KEYWORD mode a text the cache holds an answer for has been classified
\* by its keywords and is being searched
C23_Witness ==
  /\ mode = "KEYWORD"
  /\ CacheHas(llmCache, Txt_q)
  /\ \E i \in TaskIx :
       /\ tasks[i].fullText = Txt_q
       /\ tasks[i].via = "keyword"
       /\ tasks[i].isQuestion
       /\ tasks[i].pc = "searching"

\* C24: when the search of a chain that began before the latest Start settles,
\* the display list, which holds only fragments of the new session, is left
\* as it is.
C24_NoStaleAnnotation ==
  [][\A i \in TaskIds, response \in SearchResponses :
       (SearchSettle(i, response) /\ tasks[i].epoch # epoch) =>
         phrases' = phrases]_vars

\* start s holds a connection, a microphone stream or an audio resource
HoldsResources(s) ==
  \/ connState[s] \in {"connecting", "open"}
  \/ streamState[s] = "live"
  \/ ctxState[s] = "running"
  \/ procState[s] = "connected"
  \/ srcState[s] = "connected"

\* C25: at most one start holds resources at any time, the step in which Start
\* begins a session leaves every earlier session released, and a handle that
\* is set refers to the one start that holds resources.
C25_OneLiveSession ==
  /\ [](Cardinality({s \in StartIds : HoldsResources(s)}) <= 1)
  /\ [](\A s \in StartIds :
          HoldsResources(s) =>
            \A handle \in {session, mediaStream, scriptProcessor,
                           mediaStreamSource, audioContext} :
              handle \in {Null, s})
  /\ [][HandleStart => AllReleased']_vars

\* C26: whenever the Stop button is enabled, pressing it leaves the status
\* STOPPED, the handles cleared and every connection and audio resource
\* released, so that no fragment can arrive afterwards.
C26_StopAlwaysStops ==
  status \in {"CONNECTING", "LISTENING"} =>
    ENABLED (/\ HandleStop
             /\ status' = "STOPPED"
             /\ HandlesCleared'
             /\ AllReleased')

\* C27: between callbacks the buffer is empty when no group is open and
\* otherwise is the concatenation, in display order, of the texts of the
\* displayed fragments that carry the open group's id; the step of Start
\* leaves no group open and the buffer empty.
C27_BufferMatchesOpenGroup ==
  /\ [](IF currentQuestionGroup = NoGroup
        THEN accumulatedText = <<>>
        ELSE accumulatedText = GroupText(phrases, currentQuestionGroup))
  /\ [][HandleStart =>
          (currentQuestionGroup' = NoGroup /\ accumulatedText' = <<>>)]_vars

\* in the second session a group of two fragments is open
C27_Witness ==
  /\ epoch = 2
  /\ Len(phrases) = 2
  /\ currentQuestionGroup # NoGroup
  /\ phrases[1].questionGroupId = currentQuestionGroup
  /\ phrases[2].questionGroupId = currentQuestionGroup
  /\ accumulatedText = Txt_te \o Txt_te

\* C28: the cache changes only when a classifier call answers, by storing the
\* answer parsed from that response; a failed call leaves the cache as it is;
\* every entry is the answer the classifier gave some call on that text; and
\* in LLM mode a call on a text the cache has no entry for goes to the
\* classifier.
C28_CacheHoldsClassifierAnswers ==
  /\ [](\A c \in 1..Len(llmCache) :
          \E i \in TaskIx :
            /\ tasks[i].via = "llm"
            /\ tasks[i].fullText = llmCache[c].key
            /\ tasks[i].isQuestion = llmCache[c].value)
  /\ [][/\ \A i \in TaskIds : LLMFail(i) => llmCache' = llmCache
        /\ llmCache' # llmCache =>
             \E i \in TaskIds, response \in LLMResponses :
               /\ LLMSettle(i, response)
               /\ llmCache' = CacheInsert(llmCache, tasks[i].fullText,
                                          ResponseSaysYes(response))
        /\ \A s \in StartIds, f \in Fragments :
             (/\ OnMessage(s, f)
              /\ mode = "LLM"
              /\ HasPunctuation(f.text)
              /\ ~CacheHas(llmCache, accumulatedText \o f.text)) =>
               /\ tasks'[Len(tasks')].pc = "llm"
               /\ tasks'[Len(tasks')].net]_vars

\* after a failed call on a text, a later call on the same text went to the
\* classifier, and only its answer is in the cache
C28_Witness ==
  \E i, j \in TaskIx :
    /\ i < j
    /\ tasks[i].fullText = tasks[j].fullText
    /\ tasks[i].via = "fallback"
    /\ tasks[j].via = "llm" /\ tasks[j].net
    /\ tasks[i].isQuestion # tasks[j].isQuestion
    /\ CacheHas(llmCache, tasks[j].fullText)
    /\ CacheGet(llmCache, tasks[j].fullText) = tasks[j].isQuestion

\* the save-memory requests answered with 200
SavedIx == {r \in SaveIx : \E a \in 1..Len(requests[r].responses) :
                              requests[r].responses[a].status = 200}

\* C29: the collection changes only in the step that answers a save-memory
\* request with 200, and only by gaining one record at its end, made of the
\* request's classification, description and sourceFile and of the embedding
\* and createdAt the server computed; a save-memory request has one answer,
\* 200 with success=true or 400 or 500 with success=false; the collection
\* has grown by one record for each request answered with 200.
C29_SaveAppendsOnce ==
  /\ [][collection' # collection =>
          \E r \in SaveIx :
            /\ requests[r].pc = "inserting"
            /\ requests'[r].responses = <<[status |-> 200, success |-> TRUE, results |-> <<>>]>>
            /\ Len(collection') = Len(collection) + 1
            /\ SubSeq(collection', 1, Len(collection)) = collection
            /\ LET doc == collection'[Len(collection')]
               IN  /\ doc.classification = requests[r].body.memory.classification
                   /\ doc.description = requests[r].body.memory.description
                   /\ doc.sourceFile = requests[r].body.sourceFile
                   /\ doc.embedding = "from the embedding service"
                   /\ doc.createdAt = "server time"]_vars
  /\ [](\A r \in SaveIx :
          requests[r].pc = "responded" =>
            /\ Len(requests[r].responses) = 1
            /\ requests[r].responses[1].status \in {200, 400, 500}
            /\ requests[r].responses[1].success <=> requests[r].responses[1].status = 200
            /\ (SaveIsInvalid(requests[r].body) \/ requests[r].failed) =>
                 requests[r].responses[1].status \in {400, 500})
  /\ [](Len(collection) - Cardinality(SavedIx) \in {0, MaxStored})

\* two identical requests whose memory object names its own createdAt and
\* embedding were both answered with 200 and left two equal records with the
\* server's values at the end of the collection
C29_Witness ==
  /\ Len(requests) = 2
  /\ SavedIx = {1, 2}
  /\ requests[1].body = requests[2].body
  /\ requests[1].body.memory.createdAt = "from the client"
  /\ requests[1].body.memory.embedding = "from the client"
  /\ Len(collection) = MaxStored + 2
  /\ collection[Len(collection)] = collection[Len(collection) - 1]
  /\ collection[Len(collection)].createdAt = "server time"
  /\ collection[Len(collection)].embedding = "from the embedding service"

====
